---- MODULE Spec2Model ----
(***************************************************************************)
(* A model of copywriter (src/src/main.rs): the tool that puts a copyright *)
(* header at the top and a license footer at the bottom of source files.   *)
(*                                                                         *)
(* Text is a sequence of tokens.  A token is either one character (" ",    *)
(* the newline, "/", "*", "#", "-", "$", a digit, ...) or a whole word     *)
(* ("Copyright", "(c)", "License", "Jane", ...) standing for the           *)
(* characters it spells.  No word of the alphabet is a part of another     *)
(* and no marker character occurs in a word, so matching token by token    *)
(* is matching character by character on the texts the model builds.       *)
(***************************************************************************)
EXTENDS Integers, Sequences, FiniteSets, TLC

VARIABLES
    files,            \* the entries of the tree, in walk order: name, content, size
    path_kind,        \* what the path argument names: "file", "dir" or "none"
    target,           \* the entry the path names, when it names a file
    dry_run,          \* --dry-run
    author_name,      \* --author
    license_content,  \* the text of the license file
    current_year,     \* Utc::now().year()
    pc,               \* where main (or update_file) stands
    idx,              \* the walk's position in the tree
    cur,              \* the entry of the last call of update_file (0: none)
    content,          \* update_file: the text read from the file
    updated_content,  \* update_file: the text after the header step
    final_content,    \* update_file: the text after the footer step
    pass,             \* how many times the tool has run on the file
    passed,           \* history: the entries update_file was called on
    io_failed         \* history: the entries an I/O error was met on

vars == <<files, path_kind, target, dry_run, author_name, license_content,
          current_year, pc, idx, cur, content, updated_content, final_content,
          pass, passed, io_failed>>

SP == " "
NL == "\n"

Digits == <<"0", "1", "2", "3", "4", "5", "6", "7", "8", "9">>

IsDigit(t) == \E d \in 1..10 : Digits[d] = t

DigitVal(t) == (CHOOSE d \in 1..10 : Digits[d] = t) - 1

\* char::is_whitespace on the alphabet of the model
IsSpace(t) == t \in {SP, NL}

\* the words of the alphabet: letters only
Words == {"Copyright", "License", "MIT", "Jane", "Doe", "Ke", "ha", "x", "old"}

\* regex-syntax is_valid_cap_letter: [0-9A-Za-z_]
IsCapLetter(t) == IsDigit(t) \/ t \in Words

(***************************************************************************)
(* Integers and their decimal text.                                        *)
(***************************************************************************)
RECURSIVE ParseInt(_)
\* str::parse::<i32>() of a non-empty string of digits
ParseInt(ds) ==
    IF Len(ds) = 0 THEN 0
    ELSE 10 * ParseInt(SubSeq(ds, 1, Len(ds) - 1)) + DigitVal(ds[Len(ds)])

RECURSIVE FormatInt(_)
\* Display of a non-negative i32 ("{}"): no leading zeros
FormatInt(n) ==
    IF n < 10 THEN <<Digits[n + 1]>>
    ELSE FormatInt(n \div 10) \o <<Digits[(n % 10) + 1]>>

(***************************************************************************)
(* String helpers of the standard library.                                 *)
(***************************************************************************)
RECURSIVE TrimEnd(_)
\* str::trim_end
TrimEnd(s) ==
    IF Len(s) > 0 /\ IsSpace(s[Len(s)]) THEN TrimEnd(SubSeq(s, 1, Len(s) - 1))
    ELSE s

\* str::trim().is_empty()
IsBlank(s) == \A i \in 1..Len(s) : IsSpace(s[i])

RECURSIVE LinesFrom(_, _, _)
LinesFrom(s, i, acc) ==
    IF i > Len(s) THEN (IF acc = <<>> THEN <<>> ELSE <<acc>>)
    ELSE IF s[i] = NL THEN <<acc>> \o LinesFrom(s, i + 1, <<>>)
    ELSE LinesFrom(s, i + 1, Append(acc, s[i]))

\* str::lines: split at newlines; a final newline ends the last line and
\* starts no empty one
Lines(s) == LinesFrom(s, 1, <<>>)

RECURSIVE Join(_, _)
\* [String]::join(sep)
Join(ls, sep) ==
    IF Len(ls) = 0 THEN <<>>
    ELSE IF Len(ls) = 1 THEN ls[1]
    ELSE ls[1] \o sep \o Join(Tail(ls), sep)

\* str::contains(char)
Contains(s, t) == \E i \in 1..Len(s) : s[i] = t

\* str::starts_with / ends_with
StartsWith(s, p) == Len(p) <= Len(s) /\ SubSeq(s, 1, Len(p)) = p

EndsWith(s, p) == Len(p) <= Len(s) /\ SubSeq(s, Len(s) - Len(p) + 1, Len(s)) = p

(***************************************************************************)
(* Regular expressions, as the regex crate matches them: the leftmost      *)
(* match, and at that start the match a backtracking search finds first    *)
(* (a greedy repetition tries the longest first, a lazy one the shortest). *)
(* A pattern is a sequence of items; MatchFrom answers <<>> (no match) or  *)
(* the positions <<p_1, .., p_n, end>>: p_k is where item k began.         *)
(***************************************************************************)
Lit(t) == [k |-> "lit", c |-> t, n |-> 0]          \* one literal token
One(cl) == [k |-> "one", c |-> cl, n |-> 0]        \* \d
Star(cl) == [k |-> "star", c |-> cl, n |-> 0]      \* \s*   (greedy)
Lazy(cl) == [k |-> "lazy", c |-> cl, n |-> 0]      \* .*?   (lazy)
Opt(n) == [k |-> "opt", c |-> "", n |-> n]         \* (?: next n items )?
Grp == [k |-> "grp", c |-> "", n |-> 0]            \* a bracket of a capture group
End == [k |-> "end", c |-> "", n |-> 0]            \* $ (not multi-line)

\* the character classes: \d, \s, . and (?s).
InClass(cl, t) ==
    CASE cl = "d" -> IsDigit(t)
      [] cl = "s" -> IsSpace(t)
      [] cl = "dot" -> t # NL
      [] cl = "any" -> TRUE

\* regex::escape: every character of the text is matched literally
Escape(s) == [i \in 1..Len(s) |-> Lit(s[i])]

\* how many tokens of class cl stand at s[i..]
RunLen(cl, s, i) ==
    LET stops == {j \in i..Len(s) : ~InClass(cl, s[j])}
    IN  IF stops = {} THEN Len(s) + 1 - i
        ELSE (CHOOSE j \in stops : \A h \in stops : j <= h) - i

Copies(n, v) == [j \in 1..n |-> v]

RECURSIVE MatchFrom(_, _, _, _)
RECURSIVE TryDown(_, _, _, _, _)
RECURSIVE TryUp(_, _, _, _, _)

MatchFrom(re, k, s, i) ==
    IF k > Len(re) THEN <<i>>
    ELSE LET it == re[k] IN
      CASE it.k = "lit" ->
             IF i <= Len(s) /\ s[i] = it.c
             THEN LET r == MatchFrom(re, k + 1, s, i + 1)
                  IN  IF r = <<>> THEN <<>> ELSE <<i>> \o r
             ELSE <<>>
        [] it.k = "one" ->
             IF i <= Len(s) /\ InClass(it.c, s[i])
             THEN LET r == MatchFrom(re, k + 1, s, i + 1)
                  IN  IF r = <<>> THEN <<>> ELSE <<i>> \o r
             ELSE <<>>
        [] it.k = "star" -> TryDown(re, k, s, i, RunLen(it.c, s, i))
        [] it.k = "lazy" -> TryUp(re, k, s, i, RunLen(it.c, s, i))
        [] it.k = "opt" ->
             LET with == MatchFrom(re, k + 1, s, i)
             IN  IF with # <<>> THEN <<i>> \o with
                 ELSE LET without == MatchFrom(re, k + it.n + 1, s, i)
                      IN  IF without = <<>> THEN <<>>
                          ELSE <<i>> \o Copies(it.n, i) \o without
        [] it.k = "grp" ->
             LET r == MatchFrom(re, k + 1, s, i)
             IN  IF r = <<>> THEN <<>> ELSE <<i>> \o r
        [] it.k = "end" ->
             IF i = Len(s) + 1
             THEN LET r == MatchFrom(re, k + 1, s, i)
                  IN  IF r = <<>> THEN <<>> ELSE <<i>> \o r
             ELSE <<>>

\* greedy: the most tokens (at most max) after which the rest matches
TryDown(re, k, s, i, max) ==
    LET ok == {j \in 0..max : MatchFrom(re, k + 1, s, i + j) # <<>>}
    IN  IF ok = {} THEN <<>>
        ELSE <<i>> \o MatchFrom(re, k + 1, s, i + (CHOOSE j \in ok : \A h \in ok : h <= j))

\* lazy: the fewest tokens (at most max) after which the rest matches
TryUp(re, k, s, i, max) ==
    LET ok == {j \in 0..max : MatchFrom(re, k + 1, s, i + j) # <<>>}
    IN  IF ok = {} THEN <<>>
        ELSE <<i>> \o MatchFrom(re, k + 1, s, i + (CHOOSE j \in ok : \A h \in ok : j <= h))

\* Regex::captures / Regex::find: the leftmost match, <<>> when there is none
Find(re, s) ==
    LET starts == {i \in 1..(Len(s) + 1) : MatchFrom(re, 1, s, i) # <<>>}
    IN  IF starts = {} THEN <<>>
        ELSE MatchFrom(re, 1, s, CHOOSE i \in starts : \A j \in starts : i <= j)

\* Regex::is_match
IsMatch(re, s) == Find(re, s) # <<>>

MatchStart(m) == m[1]

MatchEnd(m) == m[Len(m)]

\* the text of the whole match (group 0)
MatchText(s, m) == SubSeq(s, MatchStart(m), MatchEnd(m) - 1)

RECURSIVE CapNameLen(_, _)
\* the length of the longest run of capture-name letters at rep[i..]
CapNameLen(rep, i) ==
    IF i <= Len(rep) /\ IsCapLetter(rep[i]) THEN 1 + CapNameLen(rep, i + 1) ELSE 0

RECURSIVE ExpandFrom(_, _, _)
\* Captures::expand of the replacement text rep from position i; groups is
\* the sequence of the texts of groups 0, 1, ... of the match.
\* "$$" is a dollar; "$" and a name of letters and digits is the group of
\* that number, or nothing when the name is no number or no such group
\* exists; any other "$" stands for itself.
ExpandFrom(rep, i, groups) ==
    IF i > Len(rep) THEN <<>>
    ELSE IF rep[i] # "$" THEN <<rep[i]>> \o ExpandFrom(rep, i + 1, groups)
    ELSE IF i < Len(rep) /\ rep[i + 1] = "$"
         THEN <<"$">> \o ExpandFrom(rep, i + 2, groups)
    ELSE LET n == CapNameLen(rep, i + 1)
             name == SubSeq(rep, i + 1, i + n)
         IN  IF n = 0 THEN <<"$">> \o ExpandFrom(rep, i + 1, groups)
             ELSE IF (\A j \in 1..n : IsDigit(name[j])) /\ ParseInt(name) < Len(groups)
                  THEN groups[ParseInt(name) + 1] \o ExpandFrom(rep, i + n + 1, groups)
                  ELSE ExpandFrom(rep, i + n + 1, groups)

\* Regex::replace(text, rep) for a match m of the text: the first match is
\* replaced by the expansion of rep, the rest is kept
Replace(s, m, rep, groups) ==
    IF m = <<>> THEN s
    ELSE SubSeq(s, 1, MatchStart(m) - 1) \o ExpandFrom(rep, 1, groups)
         \o SubSeq(s, MatchEnd(m), Len(s))

(***************************************************************************)
(* Paths.  A file name is a sequence of characters.                        *)
(***************************************************************************)
None == [some |-> FALSE, v |-> <<>>]

Some(x) == [some |-> TRUE, v |-> x]

UpperCase == <<"A", "B", "C", "D", "E", "F", "G", "H", "I", "J", "K", "L", "M",
               "N", "O", "P", "Q", "R", "S", "T", "U", "V", "W", "X", "Y", "Z">>

LowerCase == <<"a", "b", "c", "d", "e", "f", "g", "h", "i", "j", "k", "l", "m",
               "n", "o", "p", "q", "r", "s", "t", "u", "v", "w", "x", "y", "z">>

\* char::to_lowercase
LowerChar(ch) ==
    IF \E j \in 1..26 : UpperCase[j] = ch
    THEN LowerCase[CHOOSE j \in 1..26 : UpperCase[j] = ch]
    ELSE ch

\* str::to_lowercase
ToLowercase(s) == [j \in 1..Len(s) |-> LowerChar(s[j])]

\* Path::extension of a file name: what follows the last ".", and nothing
\* when there is no "." or the only "." is the first character
Extension(name) ==
    LET dots == {j \in 1..Len(name) : name[j] = "."}
    IN  IF dots = {} THEN None
        ELSE LET last == CHOOSE j \in dots : \A d \in dots : d <= j
             IN  IF last = 1 THEN None
                 ELSE Some(SubSeq(name, last + 1, Len(name)))

\* the list of is_source_file, each entry with its leading "."
source_extensions ==
    { <<".", "r", "s">>, <<".", "p", "y">>, <<".", "j", "s">>, <<".", "j", "s", "x">>,
      <<".", "t", "s">>, <<".", "t", "s", "x">>, <<".", "c">>, <<".", "c", "p", "p">>,
      <<".", "h">>, <<".", "h", "p", "p">>, <<".", "j", "a", "v", "a">>, <<".", "g", "o">>,
      <<".", "r", "b">>, <<".", "p", "h", "p">>, <<".", "s", "w", "i", "f", "t">>,
      <<".", "k", "t">>, <<".", "c", "s">>, <<".", "s", "h">>, <<".", "b", "a", "s", "h">>,
      <<".", "p", "l">>, <<".", "p", "m">>, <<".", "l", "u", "a">>,
      <<".", "s", "c", "a", "l", "a">>, <<".", "c", "s", "s">>, <<".", "s", "c", "s", "s">>,
      <<".", "h", "t", "m", "l">>, <<".", "x", "m", "l">>, <<".", "j", "s", "o", "n">> }

\* is_source_file, were a name without an extension taken for a source file
is_source_file_NoExtension(name) ==
    LET ext == Extension(name)
    IN  IF ext.some THEN (<<".">> \o ToLowercase(ext.v)) \in source_extensions
        ELSE TRUE

is_source_file(name) ==
    LET ext == Extension(name)
    IN  IF ext.some THEN (<<".">> \o ToLowercase(ext.v)) \in source_extensions
        ELSE FALSE

\* the comment styles: (block comment start, comment prefix, block comment end)
CStyle == << <<"/", "*">>, <<SP, "*", SP>>, <<SP, "*", "/">> >>

HashStyle == << <<"#">>, <<"#", SP>>, <<"#">> >>

LuaStyle == << <<"-", "-", "[", "[">>, <<"-", "-", SP>>, <<"-", "-", "]", "]">> >>

HtmlStyle == << <<"<", "!", "-", "-">>, <<SP>>, <<"-", "-", ">">> >>

CExts ==
    { <<"r", "s">>, <<"c">>, <<"c", "p", "p">>, <<"h">>, <<"h", "p", "p">>, <<"j", "s">>,
      <<"j", "s", "x">>, <<"t", "s">>, <<"t", "s", "x">>, <<"g", "o">>,
      <<"j", "a", "v", "a">>, <<"s", "w", "i", "f", "t">>, <<"k", "t">>,
      <<"s", "c", "a", "l", "a">>, <<"c", "s", "s">>, <<"s", "c", "s", "s">>, <<"c", "s">> }

HashExts ==
    { <<"p", "y">>, <<"r", "b">>, <<"s", "h">>, <<"b", "a", "s", "h">>, <<"p", "l">>,
      <<"p", "m">>, <<"p", "h", "p">> }

LuaExts == { <<"l", "u", "a">> }

HtmlExts == { <<"h", "t", "m", "l">>, <<"x", "m", "l">> }

\* get_comment_style, were the extension matched without to_lowercase()
get_comment_style_CaseSensitive(name) ==
    LET ext == Extension(name)
    IN  IF ext.some
        THEN LET e == ext.v
             IN  CASE e \in CExts -> CStyle
                   [] e \in HashExts -> HashStyle
                   [] e \in LuaExts -> LuaStyle
                   [] e \in HtmlExts -> HtmlStyle
                   [] OTHER -> CStyle
        ELSE HashStyle

get_comment_style(name) ==
    LET ext == Extension(name)
    IN  IF ext.some
        THEN LET e == ToLowercase(ext.v)
             IN  CASE e \in CExts -> CStyle
                   [] e \in HashExts -> HashStyle
                   [] e \in LuaExts -> LuaStyle
                   [] e \in HtmlExts -> HtmlStyle
                   [] OTHER -> CStyle
        ELSE HashStyle

(***************************************************************************)
(* update_file: the copyright header.                                      *)
(***************************************************************************)
COPYRIGHT == <<"Copyright", SP, "(c)", SP>>

\* {cs}\s*Copyright \(c\) (\d{4}(?:-\d{4})?)(?: {author}\s*.*?){ce}
copyright_pattern(comment_start, author, comment_end) ==
    Escape(comment_start) \o <<Star("s")>> \o Escape(COPYRIGHT)
    \o <<Grp, One("d"), One("d"), One("d"), One("d"),
         Opt(5), Lit("-"), One("d"), One("d"), One("d"), One("d"), Grp>>
    \o <<Lit(SP)>> \o Escape(author) \o <<Star("s"), Lazy("dot")>>
    \o Escape(comment_end)

\* the texts of the groups of a match: group 0, and group 1 when the
\* pattern has one (between its two brackets)
GroupTexts(re, s, m) ==
    LET br == {k \in 1..Len(re) : re[k].k = "grp"}
    IN  IF br = {} THEN <<MatchText(s, m)>>
        ELSE LET lo == CHOOSE k \in br : \A b \in br : k <= b
                 hi == CHOOSE k \in br : \A b \in br : b <= k
             IN  <<MatchText(s, m), SubSeq(s, m[lo], m[hi] - 1)>>

RECURSIVE SplitFrom(_, _, _, _)
SplitFrom(s, t, i, acc) ==
    IF i > Len(s) THEN <<acc>>
    ELSE IF s[i] = t THEN <<acc>> \o SplitFrom(s, t, i + 1, <<>>)
    ELSE SplitFrom(s, t, i + 1, Append(acc, s[i]))

\* str::split(char)
Split(s, t) == SplitFrom(s, t, 1, <<>>)

\* RangeNotice, were the two years passed in the other order
RangeNotice_Swapped(comment_start, start_year, year, author, comment_end) ==
    comment_start \o <<SP>> \o COPYRIGHT \o FormatInt(year) \o <<"-">>
    \o FormatInt(start_year) \o <<SP>> \o author \o <<SP>> \o comment_end

\* format!("{} Copyright (c) {}-{} {} {}", ...)
RangeNotice(comment_start, start_year, year, author, comment_end) ==
    comment_start \o <<SP>> \o COPYRIGHT \o FormatInt(start_year) \o <<"-">>
    \o FormatInt(year) \o <<SP>> \o author \o <<SP>> \o comment_end

\* format!("{} Copyright (c) {} {} {}\n\n{}", ...)
FreshHeader(comment_start, year, author, comment_end, text) ==
    comment_start \o <<SP>> \o COPYRIGHT \o FormatInt(year) \o <<SP>>
    \o author \o <<SP>> \o comment_end \o <<NL, NL>> \o text

\* updated_content of update_file
HeaderStep(text, style, author, year) ==
    LET comment_start == style[1]
        comment_end == style[3]
        copyright_regex == copyright_pattern(comment_start, author, comment_end)
        caps == Find(copyright_regex, text)
    IN  IF caps # <<>>
        THEN LET groups == GroupTexts(copyright_regex, text, caps)
                 year_str == groups[2]
             IN  IF Contains(year_str, "-")
                 THEN LET parts == Split(year_str, "-")
                          start_year == ParseInt(parts[1])
                          end_year == ParseInt(parts[2])
                      IN  IF end_year = year THEN text
                          ELSE Replace(text, caps,
                                       RangeNotice(comment_start, start_year, year,
                                                   author, comment_end),
                                       groups)
                 ELSE LET found_year == ParseInt(year_str)
                      IN  IF found_year = year THEN text
                          ELSE Replace(text, caps,
                                       RangeNotice(comment_start, found_year, year,
                                                   author, comment_end),
                                       groups)
        ELSE FreshHeader(comment_start, year, author, comment_end, text)

(***************************************************************************)
(* update_file: the license footer.                                        *)
(***************************************************************************)
LICENSE == <<"License", ":">>

\* one line of the license in the comment style
FormatLine(comment_prefix, line) ==
    IF IsBlank(line) THEN TrimEnd(comment_prefix) ELSE comment_prefix \o line

formatted_license(license, comment_prefix) ==
    LET ls == Lines(license)
    IN  Join([j \in 1..Len(ls) |-> FormatLine(comment_prefix, ls[j])], <<NL>>)

\* format!("\n\n{}\n{}License:\n{}\n{}", ...)
license_footer(license, style) ==
    <<NL, NL>> \o style[1] \o <<NL>> \o style[2] \o LICENSE \o <<NL>>
    \o formatted_license(license, style[2]) \o <<NL>> \o style[3]

\* (?s)\n\n{cs}\n.*?License:.*?\n.*?{ce}\s*$
license_pattern(comment_start, comment_end) ==
    <<Lit(NL), Lit(NL)>> \o Escape(comment_start) \o <<Lit(NL), Lazy("any")>>
    \o Escape(LICENSE) \o <<Lazy("any"), Lit(NL), Lazy("any")>>
    \o Escape(comment_end) \o <<Star("s"), End>>

\* final_content of update_file
FooterStep(updated, style, license) ==
    LET license_regex == license_pattern(style[1], style[3])
        m == Find(license_regex, updated)
        footer == license_footer(license, style)
    IN  IF m # <<>>
        THEN Replace(updated, m, footer,
                     GroupTexts(license_regex, updated, m))
        ELSE TrimEnd(updated) \o footer

\* the content update_file computes for a file
Transform(text, name, author, license, year) ==
    LET style == get_comment_style(name)
    IN  FooterStep(HeaderStep(text, style, author, year),
                   style, license)

(***************************************************************************)
(* Inputs.                                                                 *)
(***************************************************************************)
MaxBody == 2
MaxPasses == 2
MaxFiles == 2

\* 1_000_000: update_file skips a file longer than this
MAX_LEN == 1000000

Seqs(S, n) == UNION {[1..k -> S] : k \in 0..n}

Name(stem, ext) == <<stem, ".">> \o ext

Authors == { <<"Jane">>, <<"Jane", SP, "Doe">>, <<"Ke", "$", "ha">> }

Licenses == { <<"MIT">>, <<"MIT", NL, NL, "x", NL>> }

Years == {2025}

\* a notice as update_file writes one: "{cs} Copyright (c) {years} {author} {ce}"
Notice(style, years, author) ==
    style[1] \o <<SP>> \o COPYRIGHT \o years \o <<SP>> \o author \o <<SP>> \o style[3]

Y0999 == <<"0", "9", "9", "9">>
Y2019 == <<"2", "0", "1", "9">>
Y2020 == <<"2", "0", "2", "0">>
Y2021 == <<"2", "0", "2", "1">>
Y2023 == <<"2", "0", "2", "3">>
Y2025 == <<"2", "0", "2", "5">>
Y2030 == <<"2", "0", "3", "0">>

\* the year texts of the notices of the inputs
YearTexts ==
    { Y0999, Y2020, Y2021, Y2025, Y2030, Y2019 \o <<"-">> \o Y2023,
      Y2020 \o <<"-">> \o Y2025 }

\* what a file may begin with: nothing, a notice of the author with one of
\* the year texts, or a notice of another author
Heads(style, author) ==
    {<<>>}
    \cup {Notice(style, y, author) \o <<NL, NL>> : y \in YearTexts \ {Y2021}}
    \cup {Notice(style, Y2021, a) \o <<NL, NL>> : a \in Authors \ {author}}

\* a block comment after a blank line: "\n\n{cs}\nx{ce}"
Block(style) == <<NL, NL>> \o style[1] \o <<NL, "x">> \o style[3]

\* the pieces of the body of a file
Pieces(style, author) ==
    { <<"x">>, <<NL>>, Block(style), Notice(style, Y2020, author) }

RECURSIVE Concat(_)
Concat(ss) == IF Len(ss) = 0 THEN <<>> ELSE ss[1] \o Concat(Tail(ss))

Bodies(style, author) == {Concat(b) : b \in Seqs(Pieces(style, author), MaxBody)}

\* what a file may end with: nothing, the footer of the license, the footer
\* of an older license text, the footer of the license and a newline
Feet(style, license) ==
    { <<>>, license_footer(license, style), license_footer(<<"old">>, style),
      license_footer(license, style) \o <<NL>> }

Contents(style, author, license) ==
    {h \o b \o f : h \in Heads(style, author), b \in Bodies(style, author),
                   f \in Feet(style, license)}

\* one file of each comment style
StyleNames ==
    { Name("a", <<"r", "s">>), Name("a", <<"p", "y">>), Name("a", <<"l", "u", "a">>),
      Name("a", <<"h", "t", "m", "l">>) }

File(name, data, len, is_file, utf8) ==
    [name |-> name, data |-> data, len |-> len, is_file |-> is_file, utf8 |-> utf8]

(***************************************************************************)
(* The transformation of one file: the header step and the footer step of  *)
(* update_file, and the tool run again on what it wrote.                   *)
(***************************************************************************)
\* a few contents: no notice and no footer, or an old notice and the footer
\* of an older license text
FewContents(style, author, license) ==
    { <<"x">>, <<"x", NL>>,
      Notice(style, Y2020, author) \o <<NL, NL, "x">> \o license_footer(<<"old">>, style),
      <<"x">> \o license_footer(license, style) }

\* every head and every body, and no footer
HeadContents(style, author, license) ==
    {h \o b : h \in Heads(style, author), b \in Bodies(style, author)}

\* the contents of a family of inputs
Inputs(family, style, author, license) ==
    IF family = "few" THEN FewContents(style, author, license)
    ELSE IF family = "heads" THEN HeadContents(style, author, license)
    ELSE Contents(style, author, license)

InitTransformOf(names, authors, licenses, family) ==
    /\ author_name \in authors
    /\ license_content \in licenses
    /\ current_year \in Years
    /\ \E n \in names :
         \E c \in Inputs(family, get_comment_style(n), author_name, license_content) :
            /\ files = <<File(n, c, Len(c), TRUE, TRUE)>>
            /\ content = c
    /\ path_kind = "file"
    /\ target = 1
    /\ dry_run = FALSE
    /\ pc = "header"
    /\ idx = 0
    /\ cur = 1
    /\ updated_content = <<>>
    /\ final_content = <<>>
    /\ pass = 1
    /\ passed = {1}
    /\ io_failed = {}

Init == InitTransformOf(StyleNames, Authors, Licenses, "all")

\* lines 168-212: the comment style of the file and the header step
Header ==
    /\ pc = "header"
    /\ updated_content' = HeaderStep(content, get_comment_style(files[cur].name),
                                     author_name, current_year)
    /\ pc' = "footer"
    /\ UNCHANGED <<files, path_kind, target, dry_run, author_name, license_content,
                   current_year, idx, cur, content, final_content, pass, passed,
                   io_failed>>

\* fs::write(file_path, final_content), when the content changed
Written(fs, i, text) ==
    [fs EXCEPT ![i] = [@ EXCEPT !.data = text, !.len = Len(text)]]

\* lines 214-266: the footer step, and the file written when it changed
Footer ==
    /\ pc = "footer"
    /\ final_content' = FooterStep(updated_content, get_comment_style(files[cur].name),
                                   license_content)
    /\ files' = IF content # final_content' THEN Written(files, cur, final_content')
                ELSE files
    /\ pc' = "written"
    /\ UNCHANGED <<path_kind, target, dry_run, author_name, license_content,
                   current_year, idx, cur, content, updated_content, pass, passed,
                   io_failed>>

\* the tool is run again, with the same arguments, on the file it wrote
Again ==
    /\ pc = "written"
    /\ pass < MaxPasses
    /\ content' = files[cur].data
    /\ updated_content' = <<>>
    /\ final_content' = <<>>
    /\ pass' = pass + 1
    /\ pc' = "header"
    /\ UNCHANGED <<files, path_kind, target, dry_run, author_name, license_content,
                   current_year, idx, cur, passed, io_failed>>

Next == Header \/ Footer \/ Again

Spec == Init /\ [][Next]_vars

InitHeader == InitTransformOf(StyleNames, Authors, {<<"MIT">>}, "heads")

\* the transformation, over every head and every body
SpecHeader == InitHeader /\ [][Next]_vars

\* the extensions get_comment_style and is_source_file name, "txt", and the
\* empty one
SomeExts ==
    CExts \cup HashExts \cup LuaExts \cup HtmlExts
    \cup { <<"j", "s", "o", "n">>, <<"t", "x", "t">>, <<>> }

\* str::to_uppercase
ToUppercase(s) ==
    [j \in 1..Len(s) |->
        IF \E h \in 1..26 : LowerCase[h] = s[j]
        THEN UpperCase[CHOOSE h \in 1..26 : LowerCase[h] = s[j]]
        ELSE s[j]]

\* file names of every extension, in lower case and in upper case, of a
\* mixed case, without an extension, and with a leading "." only
AllNames ==
    {Name("a", e) : e \in SomeExts}
    \cup {Name("a", ToUppercase(e)) : e \in SomeExts}
    \cup { Name("a", <<"R", "s">>), Name("a", <<"p", "Y">>), Name("a", <<"L", "u", "A">>),
           <<"m">>, <<".", "r", "s">>, <<".", "p", "y">> }

InitStyle ==
    InitTransformOf(AllNames, {<<"Jane">>}, {<<"MIT">>, <<"MIT", NL, "x">>},
                    "few")

\* the transformation, over the file names of every extension
SpecStyle == InitStyle /\ [][Next]_vars

(***************************************************************************)
(* main and update_file: one run of the tool on a path.  An entry of the   *)
(* tree is a file or a directory; len is metadata.len(), and utf8 tells    *)
(* whether the bytes of the file decode as text.  The data of an entry     *)
(* stands for its content, whatever its len.                               *)
(***************************************************************************)
\* the content the tool leaves in a file named name that held "x"
Processed(name) == Transform(<<"x">>, name, <<"Jane">>, <<"MIT">>, 2025)

Entries ==
    { File(Name("a", <<"r", "s">>), <<"x">>, 1, TRUE, TRUE),
      File(Name("a", <<"r", "s">>), Processed(Name("a", <<"r", "s">>)),
           Len(Processed(Name("a", <<"r", "s">>))), TRUE, TRUE),
      File(Name("b", <<"P", "Y">>), <<"x">>, MAX_LEN, TRUE, TRUE),
      File(Name("b", <<"p", "y">>), <<"x">>, MAX_LEN + 1, TRUE, TRUE),
      File(Name("c", <<"r", "s">>), <<"x">>, 1, TRUE, FALSE),
      File(Name("n", <<"t", "x", "t">>), <<"x">>, 1, TRUE, TRUE),
      File(<<"m">>, <<"x">>, 1, TRUE, TRUE),
      File(Name("d", <<"r", "s">>), <<>>, 0, FALSE, TRUE) }

InitWalk ==
    /\ files \in Seqs(Entries, MaxFiles)
    /\ \/ path_kind = "dir" /\ target = 0
       \/ path_kind = "none" /\ target = 0
       \/ path_kind = "file" /\ target \in {i \in 1..Len(files) : files[i].is_file}
    /\ dry_run \in BOOLEAN
    /\ author_name = <<"Jane">>
    /\ license_content = <<"MIT">>
    /\ current_year = 2025
    /\ pc = "start"
    /\ idx = 0
    /\ cur = 0
    /\ content = <<>>
    /\ updated_content = <<>>
    /\ final_content = <<>>
    /\ pass = 1
    /\ passed = {}
    /\ io_failed = {}

\* ShouldWrite, were --dry-run not looked at
ShouldWrite_IgnoresDryRun(dry, before, after) == before # after

\* lines 254-262: the file is written when this is no dry run and the
\* content changed
ShouldWrite(dry, before, after) == ~dry /\ before # after

\* a write that failed: the file is as it was, or was truncated
WriteFailed(fs, i) == {fs, [fs EXCEPT ![i] = [@ EXCEPT !.data = <<>>, !.len = 0]]}

\* update_file(file_path, ...) on entry i; ok_pc and ok_idx are where main
\* goes on when it returns Ok, and it stops ("failed") when it returns Err
UpdateFile(i, ok_pc, ok_idx) ==
    /\ cur' = i
    /\ passed' = passed \cup {i}
    /\ \/ \* fs::metadata(file_path)? fails
          /\ io_failed' = io_failed \cup {i}
          /\ pc' = "failed"
          /\ UNCHANGED <<files, idx>>
          /\ content' = <<>> /\ updated_content' = <<>> /\ final_content' = <<>>
       \/ \* a very large file is skipped
          /\ files[i].len > MAX_LEN
          /\ pc' = ok_pc /\ idx' = ok_idx
          /\ UNCHANGED <<files, io_failed>>
          /\ content' = <<>> /\ updated_content' = <<>> /\ final_content' = <<>>
       \/ \* fs::read_to_string fails, the bytes being no text: skipped
          /\ files[i].len <= MAX_LEN
          /\ ~files[i].utf8
          /\ pc' = ok_pc /\ idx' = ok_idx
          /\ UNCHANGED <<files, io_failed>>
          /\ content' = <<>> /\ updated_content' = <<>> /\ final_content' = <<>>
       \/ \* fs::read_to_string fails with an I/O error: Err(_), skipped too
          /\ files[i].len <= MAX_LEN
          /\ io_failed' = io_failed \cup {i}
          /\ pc' = ok_pc /\ idx' = ok_idx
          /\ UNCHANGED files
          /\ content' = <<>> /\ updated_content' = <<>> /\ final_content' = <<>>
       \/ \* the file is read and transformed
          /\ files[i].len <= MAX_LEN
          /\ files[i].utf8
          /\ content' = files[i].data
          /\ updated_content' = HeaderStep(content', get_comment_style(files[i].name),
                                           author_name, current_year)
          /\ final_content' = FooterStep(updated_content',
                                         get_comment_style(files[i].name),
                                         license_content)
          /\ IF ShouldWrite(dry_run, content', final_content')
             THEN \/ \* fs::write(file_path, final_content)? succeeds
                     /\ files' = Written(files, i, final_content')
                     /\ pc' = ok_pc /\ idx' = ok_idx
                     /\ UNCHANGED io_failed
                  \/ \* fs::write(file_path, final_content)? fails
                     /\ files' \in WriteFailed(files, i)
                     /\ io_failed' = io_failed \cup {i}
                     /\ pc' = "failed"
                     /\ UNCHANGED idx
             ELSE /\ pc' = ok_pc /\ idx' = ok_idx
                  /\ UNCHANGED <<files, io_failed>>
    /\ UNCHANGED <<path_kind, target, dry_run, author_name, license_content,
                   current_year, pass>>

\* lines 60-61: the path is a file
MainFile ==
    /\ pc = "start"
    /\ path_kind = "file"
    /\ UpdateFile(target, "done", idx)

\* lines 62-63: the path is a directory, the walk begins
MainDir ==
    /\ pc = "start"
    /\ path_kind = "dir"
    /\ pc' = "walk"
    /\ idx' = 1
    /\ UNCHANGED <<files, path_kind, target, dry_run, author_name, license_content,
                   current_year, cur, content, updated_content, final_content, pass,
                   passed, io_failed>>

\* lines 69-74: the path is neither
MainMissing ==
    /\ pc = "start"
    /\ path_kind = "none"
    /\ pc' = "done"
    /\ UNCHANGED <<files, path_kind, target, dry_run, author_name, license_content,
                   current_year, idx, cur, content, updated_content, final_content,
                   pass, passed, io_failed>>

\* line 65: the entry is a file and is_source_file
InScope(e) == e.is_file /\ is_source_file(e.name)

\* lines 63-67: an entry that is no source file is passed over
WalkSkip ==
    /\ pc = "walk"
    /\ idx <= Len(files)
    /\ ~InScope(files[idx])
    /\ idx' = idx + 1
    /\ UNCHANGED <<files, path_kind, target, dry_run, author_name, license_content,
                   current_year, pc, cur, content, updated_content, final_content,
                   pass, passed, io_failed>>

\* lines 63-67: update_file(entry_path, ...)? on a source file
WalkUpdate ==
    /\ pc = "walk"
    /\ idx <= Len(files)
    /\ InScope(files[idx])
    /\ UpdateFile(idx, "walk", idx + 1)

\* line 76: the walk is over, Ok(())
WalkEnd ==
    /\ pc = "walk"
    /\ idx > Len(files)
    /\ pc' = "done"
    /\ UNCHANGED <<files, path_kind, target, dry_run, author_name, license_content,
                   current_year, idx, cur, content, updated_content, final_content,
                   pass, passed, io_failed>>

NextWalk == MainFile \/ MainDir \/ MainMissing \/ WalkSkip \/ WalkUpdate \/ WalkEnd

SpecWalk == InitWalk /\ [][NextWalk]_vars

(***************************************************************************)
(* The claims about the transformation.                                    *)
(***************************************************************************)
Style == get_comment_style(files[cur].name)

\* C1: the transformation is idempotent: the tool run again, with the same
\* author, license, style and year, on the output of its first run yields
\* that output again (T(T(C)) = T(C)), and so writes nothing.
C1_Idempotent ==
    (pass = 2 /\ pc = "written") => final_content = content

\* the content begins with a notice of the author, in the style of the file,
\* whose single year or end year is the current year
HasCurrentHeader(text) ==
    \/ StartsWith(text, Notice(Style, FormatInt(current_year), author_name))
    \/ \E y \in {Y2019, Y2020} :
         StartsWith(text, Notice(Style, y \o <<"-">> \o FormatInt(current_year),
                                 author_name))

\* the content ends with the footer block of the license, in the style of
\* the file
HasCurrentFooter(text) == EndsWith(text, license_footer(license_content, Style))

\* C2: no-op stability: a content that already has a header of the author
\* ending in the current year and already ends with the footer of the
\* byte-identical license text is transformed into itself (nothing to
\* write).
C2_NoOpStable ==
    (pc = "written" /\ HasCurrentHeader(content) /\ HasCurrentFooter(content))
        => final_content = content

\* the year text of a detected notice: its start year and its end year
\* (those of a single year are that year)
StartOf(year_str) == ParseInt(SubSeq(year_str, 1, 4))

EndOf(year_str) == ParseInt(SubSeq(year_str, Len(year_str) - 3, Len(year_str)))

\* C3: the decision table of the header step: (a) no notice detected: the
\* fresh header of the current year, a blank line, then the content;
\* (b) the detected single year or end year is the current year: the content
\* unchanged; (c), (d) otherwise: the detected notice is rewritten to the
\* range from the detected start year to the current year, and what stands
\* before and after the notice is kept.
C3_HeaderTable ==
    pc = "footer" =>
        LET re == copyright_pattern(Style[1], author_name, Style[3])
            m == Find(re, content)
            year_str == GroupTexts(re, content, m)[2]
            before == SubSeq(content, 1, MatchStart(m) - 1)
            after == SubSeq(content, MatchEnd(m), Len(content))
        IN  IF m = <<>>
            THEN updated_content =
                   Notice(Style, FormatInt(current_year), author_name)
                   \o <<NL, NL>> \o content
            ELSE IF EndOf(year_str) = current_year
            THEN updated_content = content
            ELSE /\ StartsWith(updated_content,
                               before \o Style[1] \o <<SP>> \o COPYRIGHT
                               \o FormatInt(StartOf(year_str)) \o <<"-">>
                               \o FormatInt(current_year) \o <<SP>>)
                 /\ EndsWith(updated_content, Style[3] \o after)
                 /\ updated_content # content

\* C3, its case: the header step has rewritten a notice whose years were a
\* range ending before the current year
C3_Witness ==
    /\ pc = "footer"
    /\ StartsWith(content, Notice(Style, Y2019 \o <<"-">> \o Y2023, author_name))
    /\ StartsWith(updated_content,
                  Notice(Style, Y2019 \o <<"-">> \o Y2025, author_name))

\* every notice of the content is the notice of an author other than the
\* current one, and there is one
OnlyOtherAuthors(text) ==
    /\ Contains(text, "Copyright")
    /\ \A i \in 1..Len(text) :
         text[i] = "Copyright" =>
            \E a \in Authors \ {author_name}, y \in YearTexts :
               LET n == Notice(Style, y, a)
                   from == i - Len(Style[1]) - 1
               IN  /\ from >= 1
                   /\ from + Len(n) - 1 <= Len(text)
                   /\ SubSeq(text, from, from + Len(n) - 1) = n

\* C4: detection is scoped to the author: a notice, in the style of the
\* file, of an author that is another string than --author (one that only
\* starts with it included) is not recognized: the content is kept as it is
\* and the fresh header of the current author is put above it.
C4_AuthorScoped ==
    (pc = "footer" /\ OnlyOtherAuthors(content))
        => updated_content =
             Notice(Style, FormatInt(current_year), author_name) \o <<NL, NL>> \o content

\* the license texts the footers of the inputs are rendered from
FootLicenses == Licenses \cup {<<"old">>}

\* C5: the footer is replaced in place: when the content ends with a footer
\* block in the style of the file, the footer step yields what precedes that
\* block followed by the new footer: nothing before the block is removed or
\* altered, and the block is not duplicated.
C5_FooterInPlace ==
    pc = "written" =>
        \A L \in FootLicenses :
            LET old == license_footer(L, Style)
            IN  EndsWith(updated_content, old) =>
                    final_content =
                        SubSeq(updated_content, 1, Len(updated_content) - Len(old))
                        \o license_footer(license_content, Style)

\* C10: the years of the notice of the author that the header step wrote or
\* kept: a range S-E has E >= S.
C10_YearRange ==
    pc = "footer" =>
        LET re == copyright_pattern(Style[1], author_name, Style[3])
            m == Find(re, updated_content)
        IN  m # <<>> =>
               LET year_str == GroupTexts(re, updated_content, m)[2]
               IN  Contains(year_str, "-") => EndOf(year_str) >= StartOf(year_str)

(***************************************************************************)
(* The claims about the comment styles.                                    *)
(***************************************************************************)
ClaimedC ==
    { <<"r", "s">>, <<"c">>, <<"c", "p", "p">>, <<"h">>, <<"h", "p", "p">>, <<"j", "s">>,
      <<"j", "s", "x">>, <<"t", "s">>, <<"t", "s", "x">>, <<"g", "o">>,
      <<"j", "a", "v", "a">>, <<"s", "w", "i", "f", "t">>, <<"k", "t">>,
      <<"s", "c", "a", "l", "a">>, <<"c", "s", "s">>, <<"s", "c", "s", "s">>, <<"c", "s">> }

ClaimedHash ==
    { <<"p", "y">>, <<"r", "b">>, <<"s", "h">>, <<"b", "a", "s", "h">>, <<"p", "l">>,
      <<"p", "m">>, <<"p", "h", "p">> }

\* the triple the claim gives a file name
ClaimedStyle(name) ==
    LET ext == Extension(name)
        low == ToLowercase(ext.v)
    IN  IF ~ext.some THEN << <<"#">>, <<"#", SP>>, <<"#">> >>
        ELSE IF low \in ClaimedC
             THEN << <<"/", "*">>, <<SP, "*", SP>>, <<SP, "*", "/">> >>
        ELSE IF low \in ClaimedHash THEN << <<"#">>, <<"#", SP>>, <<"#">> >>
        ELSE IF low = <<"l", "u", "a">>
             THEN << <<"-", "-", "[", "[">>, <<"-", "-", SP>>, <<"-", "-", "]", "]">> >>
        ELSE IF low \in { <<"h", "t", "m", "l">>, <<"x", "m", "l">> }
             THEN << <<"<", "!", "-", "-">>, <<SP>>, <<"-", "-", ">">> >>
        ELSE << <<"/", "*">>, <<SP, "*", SP>>, <<SP, "*", "/">> >>

\* the lines of a license without blank lines, each behind the prefix
PrefixedLines(prefix, license) ==
    LET ls == Lines(license)
    IN  Join([j \in 1..Len(ls) |-> prefix \o ls[j]], <<NL>>)

\* C6: the comment style is a total, case-insensitive function of the
\* extension, the one of the table of the claim (C-style for any other
\* extension, hash style without an extension), and the header and the
\* footer written for a file use the markers of that triple.
C6_Styles ==
    LET st == ClaimedStyle(files[cur].name)
    IN  /\ (pc = "footer" /\ ~Contains(content, "Copyright"))
               => updated_content =
                    st[1] \o <<SP>> \o COPYRIGHT \o FormatInt(current_year) \o <<SP>>
                    \o author_name \o <<SP>> \o st[3] \o <<NL, NL>> \o content
        /\ (pc = "footer"
              /\ StartsWith(content, st[1] \o <<SP>> \o COPYRIGHT \o Y2020 \o <<SP>>))
               => StartsWith(updated_content,
                             st[1] \o <<SP>> \o COPYRIGHT \o Y2020 \o <<"-">>
                             \o FormatInt(current_year) \o <<SP>> \o author_name
                             \o <<SP>> \o st[3] \o <<NL, NL>>)
        /\ pc = "written"
               => EndsWith(final_content,
                           <<"x", NL, NL>> \o st[1] \o <<NL>> \o st[2] \o LICENSE \o <<NL>>
                           \o PrefixedLines(st[2], license_content) \o <<NL>> \o st[3])

\* C6, its case: a file of an upper-case extension of the hash style has got
\* its header and its footer
C6_Witness ==
    /\ pc = "written"
    /\ pass = 1
    /\ files[cur].name = Name("a", <<"P", "Y">>)
    /\ StartsWith(final_content, <<"#", SP, "Copyright">>)
    /\ EndsWith(final_content, <<NL, "#", SP, "MIT", NL, "#">>)

(***************************************************************************)
(* The claims about main.                                                  *)
(***************************************************************************)
\* C7: fail fast: once an I/O error was met on the read or the write of a
\* file, update_file is called on no later file of the walk.
C7_FailFast ==
    \A i \in io_failed : \A j \in passed : j <= i

ClaimedSources ==
    ClaimedC \cup ClaimedHash
    \cup { <<"l", "u", "a">>, <<"h", "t", "m", "l">>, <<"x", "m", "l">>,
           <<"j", "s", "o", "n">> }

\* the lower-cased extension of the name is one of the claim's list
IsClaimedSource(name) ==
    Extension(name).some /\ ToLowercase(Extension(name).v) \in ClaimedSources

\* C8, as stated: whatever the path names, a directory or a single file,
\* only files of a recognized source extension are passed to update_file.
C8_OnlySources ==
    \A i \in passed : IsClaimedSource(files[i].name)

\* C8, amended: in the walk of a directory only files of a recognized source
\* extension are passed to update_file; a path that names a single file is
\* passed to update_file whatever its extension.
C8_OnlySourcesInWalk ==
    /\ path_kind = "dir" =>
          \A i \in passed : files[i].is_file /\ IsClaimedSource(files[i].name)
    /\ (path_kind = "file" /\ pc \in {"done", "failed"}) => passed = {target}

\* C8, its case: the walk is over, it passed a source file to update_file
\* and passed over a file of another extension
C8_Witness ==
    /\ path_kind = "dir"
    /\ pc = "done"
    /\ passed # {}
    /\ \E i \in 1..Len(files) :
          files[i].is_file /\ ~IsClaimedSource(files[i].name) /\ i \notin passed

\* C9: the bytes of a file change only in a step of update_file on that
\* file, without --dry-run, the file being no longer than 1,000,000 bytes
\* and decodable, and the transformed content differing from the content
\* read.
C9_WriteCondition ==
    [][\A i \in 1..Len(files) :
          files'[i] # files[i] =>
             /\ ~dry_run
             /\ cur' = i
             /\ files[i].len <= 1000000
             /\ files[i].utf8
             /\ content' = files[i].data
             /\ final_content' # content']_vars

\* C9, its case: without --dry-run a file was written, its transformed
\* content differing from the content read
C9_Witness ==
    /\ ~dry_run
    /\ pc \in {"walk", "done"}
    /\ cur # 0
    /\ final_content # content
    /\ files[cur].data = final_content

====
